---- MODULE Spec2Model ----
(***************************************************************************)
(* Code-reference extraction of bionic (bionic/code_references.py):        *)
(* get_code_context builds a CodeContext from a callable, and              *)
(* get_referenced_objects walks the callable's bytecode with a one-slot    *)
(* "top of stack" and returns the list of referenced objects.              *)
(***************************************************************************)
EXTENDS Naturals, Sequences, FiniteSets, TLC

(***************************************************************************)
(* Python values.  k is the run-time kind the walker can observe:          *)
(* "none" is None, "str" is a str (isinstance(tos, str)), "obj" is any     *)
(* other object; v is the text of a str or the identity of an object.      *)
(***************************************************************************)
None == [k |-> "none", v |-> ""]
Str(s) == [k |-> "str", v |-> s]
Obj(id) == [k |-> "obj", v |-> id]

\* Objects whose truth value is False (the int 0 stands for all of them).
FalsyObjects == {"zero"}

\* bool(x), as used by `and tos` on lines 134 and 137.
Truthy(x) ==
    CASE x.k = "none" -> FALSE
      [] x.k = "str" -> x.v # ""
      [] OTHER -> x.v \notin FalsyObjects

\* A dict with no key.
EmptyDict == [n \in {} |-> None]

\* del d[key], for a key of d.
DictDel(d, key) == [n \in (DOMAIN d) \ {key} |-> d[n]]

\* d[key] = val
DictSet(d, key, val) == [n \in (DOMAIN d) \cup {key} |-> IF n = key THEN val ELSE d[n]]

(***************************************************************************)
(* The environment the walker reads: attributes of objects (getattr) and   *)
(* the modules importlib can see.                                          *)
(***************************************************************************)
\* The attributes objects have: <<object, attribute name>> -> value.
Attributes ==
    (<<"mod", "a">> :> Obj("mod.a")) @@
    (<<"mod.a", "a">> :> None) @@
    (<<"f", "a">> :> Str("doc")) @@
    (<<"inst", "b">> :> Obj("inst.b"))

\* hasattr(o, name)
HasAttr(o, name) == <<o.v, name>> \in DOMAIN Attributes

\* getattr(o, name), for an attribute o has.
GetAttr(o, name) == Attributes[<<o.v, name>>]

\* importlib.import_module(name): "mod" imports, "nomod" is not found
\* (ImportError), and the empty name of `from . import x` raises ValueError.
ModuleNames == {"mod", "nomod", ""}
ImportOutcome(name) ==
    CASE name = "mod" -> "module"
      [] name = "nomod" -> "ImportError"
      [] OTHER -> "ValueError"

(***************************************************************************)
(* Callables handed to get_code_context.                                   *)
(***************************************************************************)
\* Values a global or a captured cell holds.
SampleValues == {Obj("f"), Obj("zero"), Str("txt"), Str(""), None}

\* func.__globals__: the name "a" is bound or not; "b" never is.
GlobalsChoices == {EmptyDict} \cup {("a" :> x) : x \in SampleValues}

\* A callable: its code object (__code__), __globals__, co_cellvars and
\* co_freevars of the code, __closure__ (the cells' contents; <<>> also
\* stands for None), inspect.ismethod(func) and __self__.
Callable(c, g, cv, fv, cl, m) ==
    [code |-> c, globals |-> g, co_cellvars |-> cv, co_freevars |-> fv,
     closure |-> cl, ismethod |-> m, self |-> Obj("inst")]

\* The callables with code object c.
Callables(c) ==
    \* plain functions with no closure, over every globals
    {Callable(c, g, <<>>, <<>>, <<>>, FALSE) : g \in GlobalsChoices}
    \* closures: one cell variable, one free variable
    \cup {Callable(c, EmptyDict, <<"b">>, <<"a">>, <<x>>, FALSE) : x \in SampleValues}
    \* a bound method
    \cup {Callable(c, ("a" :> Obj("f")), <<"b">>, <<"a">>, <<Obj("mod")>>, TRUE)}
    \* callables whose free variables and cells may not pair up
    \cup {Callable(c, EmptyDict, <<>>, fv, cl, FALSE) :
            fv \in {<<>>, <<"a">>, <<"a", "b">>},
            cl \in {<<Obj("f")>>, <<Obj("f"), Obj("mod")>>}}

(***************************************************************************)
(* Instructions, as dis.get_instructions yields them.                      *)
(***************************************************************************)
NoLine == 0
Instr(o, a, l) == [opname |-> o, argval |-> a, starts_line |-> l]

LOAD_GLOBAL_OPS == {"LOAD_GLOBAL", "LOAD_NAME"}
LOAD_DEREF_OPS == {"LOAD_DEREF", "LOAD_CLOSURE"}
LOAD_ATTR_OPS == {"LOAD_METHOD", "LOAD_ATTR", "IMPORT_FROM"}
OTHER_OPS == {"CALL_FUNCTION", "RETURN_VALUE"}

\* The longest instruction sequence walked by one extraction, and by two
\* extractions that run together.
MaxLen == 3
MaxPairLen == 2

\* The instructions a code object is made of here: every opname the walker
\* lists, two opnames it does not list, and the names they carry.
Instrs ==
    {Instr(o, "a", l) : o \in {"LOAD_GLOBAL", "LOAD_DEREF"}, l \in {NoLine}}
    \cup {Instr(o, "b", l) : o \in {"LOAD_NAME", "LOAD_CLOSURE"}, l \in {NoLine}}
    \cup {Instr("IMPORT_NAME", n, NoLine) : n \in ModuleNames}
    \cup {Instr("LOAD_ATTR", "a", NoLine), Instr("LOAD_METHOD", "b", NoLine),
          Instr("IMPORT_FROM", "a", NoLine)}
    \cup {Instr(o, n, NoLine) : o \in {"DELETE_FAST", "STORE_FAST", "LOAD_FAST"},
                                n \in {"a", "self"}}
    \cup {Instr("CALL_FUNCTION", "", 1), Instr("RETURN_VALUE", "", NoLine)}

(***************************************************************************)
(* State.  Every extraction (a get_code_context call followed by a         *)
(* get_referenced_objects call, as in the tests' get_references) has its   *)
(* own context and locals; extractions of one callable read one code       *)
(* object.                                                                 *)
(***************************************************************************)
Walkers == {"w1", "w2"}
CodeIds == {"c1", "c2"}

VARIABLES
    func,      \* func[w]: the callable of extraction w
    status,    \* status[w]: "idle", "created", "walking", "returned", "raised"
    context,   \* context[w]: the CodeContext (globals, cells, varnames)
    code,      \* code[c]: the instructions of code object c decoded so far,
               \*          and whether that is all of them
    pc,        \* pc[w]: how many instructions the loop of w has taken
    tos,       \* tos[w]: top of the stack
    lineno,    \* lineno[w]: last line seen
    refs,      \* refs[w]: the references found so far
    result     \* result[w]: what the call returned or raised

vars == <<func, status, context, code, pc, tos, lineno, refs, result>>

\* What a call has produced: nothing yet, a list, or an exception.
Pending == [kind |-> "pending", refs |-> <<>>, cause |-> "", lineno |-> NoLine]
Returned(r) == [kind |-> "returned", refs |-> r, cause |-> "", lineno |-> NoLine]
Raised(e, cause, l) == [kind |-> e, refs |-> <<>>, cause |-> cause, lineno |-> l]

NoContext == [globals |-> EmptyDict, cells |-> EmptyDict, varnames |-> EmptyDict]

\* The state before the extractions in `active` start: fs[w] is the
\* callable of extraction w.
Begin(fs, active) ==
    /\ func = fs
    /\ status = [w \in Walkers |-> IF w \in active THEN "created" ELSE "idle"]
    /\ context = [w \in Walkers |-> NoContext]
    /\ code = [c \in CodeIds |-> [instrs |-> <<>>, complete |-> FALSE]]
    /\ pc = [w \in Walkers |-> 0]
    /\ tos = [w \in Walkers |-> None]
    /\ lineno = [w \in Walkers |-> NoLine]
    /\ refs = [w \in Walkers |-> <<>>]
    /\ result = [w \in Walkers |-> Pending]

\* One extraction of one callable.
Init ==
    \E f \in Callables("c1") : Begin([w \in Walkers |-> f], {"w1"})

\* Two extractions of one callable: get_references(f) called twice.
InitTwice ==
    \E f \in Callables("c1") : Begin([w \in Walkers |-> f], Walkers)

\* Callables that share one code object and differ in what they close over,
\* in their globals or in being bound: closures made by one enclosing
\* function, a bound method, a plain function.
PairCallables(c) ==
    {Callable(c, EmptyDict, <<"b">>, <<"a">>, <<x>>, FALSE) : x \in SampleValues}
    \cup {Callable(c, ("a" :> Obj("f")), <<"b">>, <<"a">>, <<Obj("mod")>>, TRUE),
          Callable(c, ("a" :> Obj("f")), <<>>, <<>>, <<>>, FALSE)}

\* Two extractions of two callables: get_references(f) and get_references(g)
\* running together.
InitPair ==
    \E f, g \in PairCallables("c1") :
        Begin([w \in Walkers |-> IF w = "w1" THEN f ELSE g], Walkers)

\* The length up to which instruction sequences are explored.
LenLimit ==
    IF \A w \in Walkers : status[w] # "idle" THEN MaxPairLen ELSE MaxLen

(***************************************************************************)
(* get_code_context                                                        *)
(***************************************************************************)
Min(m, n) == IF m < n THEN m ELSE n

\* get_code_context without the loop over co_cellvars: no cell variable
\* gets a key.
CellvarCells_skipped(cv) == EmptyDict

\* for var in code.co_cellvars: cells[var] = var
CellvarCells(cv) == [n \in {cv[i] : i \in DOMAIN cv} |-> Str(n)]

\* for freevar, cell in zip(co_freevars, closure): cells[freevar] =
\* cell.cell_contents.  zip stops at the shorter of the two.
ZipCells(cells, fv, cl) ==
    LET paired == 1..Min(Len(fv), Len(cl))
        last(n) == CHOOSE i \in paired :
                       fv[i] = n /\ \A j \in paired : fv[j] = n => j <= i
    IN  [n \in (DOMAIN cells) \cup {fv[i] : i \in paired} |->
            IF \E i \in paired : fv[i] = n THEN cl[last(n)] ELSE cells[n]]

\* The assert of line 63 passes.
ClosureAssertHolds(f) ==
    f.co_freevars # <<>> => Len(f.co_freevars) = Len(f.closure)

\* The CodeContext get_code_context(f) returns when it raises nothing.
CodeContextOf(f) ==
    [globals |-> f.globals,
     cells |-> IF f.co_freevars # <<>>
               THEN ZipCells(CellvarCells(f.co_cellvars), f.co_freevars, f.closure)
               ELSE CellvarCells(f.co_cellvars),
     varnames |-> IF f.ismethod THEN ("self" :> f.self) ELSE EmptyDict]

get_code_context(w) ==
    /\ status[w] = "created"
    /\ IF ClosureAssertHolds(func[w])
       THEN /\ context' = [context EXCEPT ![w] = CodeContextOf(func[w])]
            /\ status' = [status EXCEPT ![w] = "walking"]
            /\ result' = result
       ELSE /\ status' = [status EXCEPT ![w] = "raised"]
            /\ result' = [result EXCEPT ![w] = Raised("AssertionError", "", NoLine)]
            /\ context' = context
    /\ UNCHANGED <<func, code, pc, tos, lineno, refs>>

(***************************************************************************)
(* get_referenced_objects                                                  *)
(***************************************************************************)
\* The code object extraction w walks.
CodeOf(w) == code[func[w].code]

\* for op in dis.get_instructions(code): the loop of w takes ins next.  An
\* instruction already decoded is the one at pc[w] + 1; otherwise the decoder
\* yields one more, unless the code object is known to end here.
Yields(w, ins) ==
    /\ status[w] = "walking"
    /\ IF pc[w] < Len(CodeOf(w).instrs)
       THEN ins = CodeOf(w).instrs[pc[w] + 1]
       ELSE ~CodeOf(w).complete /\ Len(CodeOf(w).instrs) < LenLimit

\* lineno after ins: starts_line when it has one, the previous lineno if not.
LineAfter(w, ins) ==
    IF ins.starts_line # NoLine THEN ins.starts_line ELSE lineno[w]

\* The loop that does not advance: the instruction is taken, the position
\* in the sequence stays where it was.
Take_rereading(w, ins) ==
    /\ pc' = pc
    /\ code' = IF pc[w] < Len(CodeOf(w).instrs)
               THEN code
               ELSE [code EXCEPT ![func[w].code].instrs = Append(@, ins)]
    /\ lineno' = [lineno EXCEPT ![w] = LineAfter(w, ins)]

\* The loop of w moves on to ins.
Take(w, ins) ==
    /\ pc' = [pc EXCEPT ![w] = @ + 1]
    /\ code' = IF pc[w] < Len(CodeOf(w).instrs)
               THEN code
               ELSE [code EXCEPT ![func[w].code].instrs = Append(@, ins)]
    /\ lineno' = [lineno EXCEPT ![w] = LineAfter(w, ins)]

\* set_tos with refs one list shared by all calls (a module-level or
\* default-argument list) instead of a list made per call.
set_tos_shared_refs(w, t) ==
    /\ refs' = [x \in Walkers |->
                    IF tos[w] # None THEN Append(refs[x], tos[w]) ELSE refs[x]]
    /\ tos' = [tos EXCEPT ![w] = t]

\* set_tos that keeps refs free of duplicates: a value already in refs is
\* not appended again.
set_tos_deduplicating(w, t) ==
    /\ refs' = [refs EXCEPT ![w] =
                    IF tos[w] # None /\ \A i \in DOMAIN @ : @[i] # tos[w]
                    THEN Append(@, tos[w]) ELSE @]
    /\ tos' = [tos EXCEPT ![w] = t]

\* def set_tos(t)
set_tos(w, t) ==
    /\ refs' = [refs EXCEPT ![w] = IF tos[w] # None THEN Append(@, tos[w]) ELSE @]
    /\ tos' = [tos EXCEPT ![w] = t]

\* The handler with the exception swallowed: the loop goes on to the next
\* instruction.
OnException_swallowed(w, ins, e) ==
    UNCHANGED <<func, status, context, result, tos, refs>>

\* except Exception as e: raise CodeVersioningError(message) from e
OnException(w, ins, e) ==
    /\ status' = [status EXCEPT ![w] = "raised"]
    /\ result' = [result EXCEPT ![w] =
                      Raised("CodeVersioningError", e, LineAfter(w, ins))]
    /\ UNCHANGED <<func, context, tos, refs>>

\* The conditions of the if/elif chain, in its order.
IsLoadGlobal(ins) == ins.opname \in LOAD_GLOBAL_OPS
IsLoadDeref(ins) == ins.opname \in LOAD_DEREF_OPS
IsImportName(ins) == ins.opname = "IMPORT_NAME"
IsLoadAttr(ins) == ins.opname \in LOAD_ATTR_OPS
\* The delete rule without its `and tos`.
IsDeleteFast_unguarded(w, ins) == ins.opname = "DELETE_FAST"

IsDeleteFast(w, ins) == ins.opname = "DELETE_FAST" /\ Truthy(tos[w])
IsStoreFast(w, ins) == ins.opname = "STORE_FAST" /\ Truthy(tos[w])
IsLoadFast(w, ins) ==
    ins.opname = "LOAD_FAST" /\ ins.argval \in DOMAIN context[w].varnames
IsElse(w, ins) ==
    /\ ~IsLoadGlobal(ins) /\ ~IsLoadDeref(ins) /\ ~IsImportName(ins)
    /\ ~IsLoadAttr(ins) /\ ~IsDeleteFast(w, ins) /\ ~IsStoreFast(w, ins)
    /\ ~IsLoadFast(w, ins)

\* The global rule with context.globals.setdefault(op.argval, op.argval): a
\* name that is no global is put on tos and recorded in globals.
LoadGlobal_recording_name(w) ==
    \E ins \in Instrs :
        /\ Yields(w, ins) /\ IsLoadGlobal(ins)
        /\ Take(w, ins)
        /\ IF ins.argval \in DOMAIN context[w].globals
           THEN /\ set_tos(w, context[w].globals[ins.argval])
                /\ context' = context
           ELSE /\ set_tos(w, Str(ins.argval))
                /\ context' = [context EXCEPT ![w].globals =
                                   DictSet(@, ins.argval, Str(ins.argval))]
        /\ UNCHANGED <<func, status, result>>

\* if op.opname in ["LOAD_GLOBAL", "LOAD_NAME"]
LoadGlobal(w) ==
    \E ins \in Instrs :
        /\ Yields(w, ins) /\ IsLoadGlobal(ins)
        /\ Take(w, ins)
        /\ IF ins.argval \in DOMAIN context[w].globals
           THEN set_tos(w, context[w].globals[ins.argval])
           ELSE set_tos(w, Str(ins.argval))
        /\ UNCHANGED <<func, status, context, result>>

\* elif op.opname in ["LOAD_DEREF", "LOAD_CLOSURE"]
LoadDeref(w) ==
    \E ins \in Instrs :
        /\ Yields(w, ins) /\ IsLoadDeref(ins)
        /\ Take(w, ins)
        /\ IF ins.argval \in DOMAIN context[w].cells
           THEN /\ set_tos(w, context[w].cells[ins.argval])
                /\ UNCHANGED <<func, status, context, result>>
           ELSE OnException(w, ins, "KeyError")

\* The import rule with `except Exception` in place of `except ImportError`:
\* whatever the import raises, the name is committed.
ImportName_catch_all(w) ==
    \E ins \in Instrs :
        /\ Yields(w, ins) /\ IsImportName(ins)
        /\ Take(w, ins)
        /\ IF ImportOutcome(ins.argval) = "module"
           THEN set_tos(w, Obj(ins.argval))
           ELSE set_tos(w, Str(ins.argval))
        /\ UNCHANGED <<func, status, context, result>>

\* elif op.opname == "IMPORT_NAME"
ImportName(w) ==
    \E ins \in Instrs :
        /\ Yields(w, ins) /\ IsImportName(ins)
        /\ Take(w, ins)
        /\ CASE ImportOutcome(ins.argval) = "module" ->
                    /\ set_tos(w, Obj(ins.argval))
                    /\ UNCHANGED <<func, status, context, result>>
             [] ImportOutcome(ins.argval) = "ImportError" ->
                    /\ set_tos(w, Str(ins.argval))
                    /\ UNCHANGED <<func, status, context, result>>
             [] OTHER -> OnException(w, ins, ImportOutcome(ins.argval))

\* The concatenation with the prefix dropped: tos = op.argval.
Qualified_prefix_lost(t, name) == Str(name)

\* tos += "." + op.argval
Qualified(t, name) == Str(t.v \o "." \o name)

\* The attribute rule that, with tos empty, puts the bare name on tos (as a
\* load of an unknown global does) instead of appending it to refs.
LoadAttr_name_on_tos(w) ==
    \E ins \in Instrs :
        /\ Yields(w, ins) /\ IsLoadAttr(ins)
        /\ Take(w, ins)
        /\ CASE tos[w] = None ->
                    /\ tos' = [tos EXCEPT ![w] = Str(ins.argval)]
                    /\ UNCHANGED <<func, status, context, result, refs>>
             [] tos[w].k = "str" ->
                    /\ tos' = [tos EXCEPT ![w] = Qualified(@, ins.argval)]
                    /\ UNCHANGED <<func, status, context, result, refs>>
             [] OTHER ->
                    IF HasAttr(tos[w], ins.argval)
                    THEN /\ tos' = [tos EXCEPT ![w] = GetAttr(@, ins.argval)]
                         /\ UNCHANGED <<func, status, context, result, refs>>
                    ELSE OnException(w, ins, "AttributeError")

\* elif op.opname in ["LOAD_METHOD", "LOAD_ATTR", "IMPORT_FROM"]
LoadAttr(w) ==
    \E ins \in Instrs :
        /\ Yields(w, ins) /\ IsLoadAttr(ins)
        /\ Take(w, ins)
        /\ CASE tos[w] = None ->
                    /\ refs' = [refs EXCEPT ![w] = Append(@, Str(ins.argval))]
                    /\ UNCHANGED <<func, status, context, result, tos>>
             [] tos[w].k = "str" ->
                    /\ tos' = [tos EXCEPT ![w] = Qualified(@, ins.argval)]
                    /\ UNCHANGED <<func, status, context, result, refs>>
             [] OTHER ->
                    IF HasAttr(tos[w], ins.argval)
                    THEN /\ tos' = [tos EXCEPT ![w] = GetAttr(@, ins.argval)]
                         /\ UNCHANGED <<func, status, context, result, refs>>
                    ELSE OnException(w, ins, "AttributeError")

\* elif op.opname == "DELETE_FAST" and tos
DeleteFast(w) ==
    \E ins \in Instrs :
        /\ Yields(w, ins) /\ IsDeleteFast(w, ins)
        /\ Take(w, ins)
        /\ IF ins.argval \in DOMAIN context[w].varnames
           THEN /\ context' = [context EXCEPT ![w].varnames = DictDel(@, ins.argval)]
                /\ tos' = [tos EXCEPT ![w] = None]
                /\ UNCHANGED <<func, status, result, refs>>
           ELSE OnException(w, ins, "KeyError")

\* The store rule with one Context handed to every walk: the binding lands
\* in the varnames all walks read.
StoreFast_shared_context(w) ==
    \E ins \in Instrs :
        /\ Yields(w, ins) /\ IsStoreFast(w, ins)
        /\ Take(w, ins)
        /\ context' = [x \in Walkers |->
                          [context[x] EXCEPT
                              !.varnames = DictSet(@, ins.argval, tos[w])]]
        /\ tos' = [tos EXCEPT ![w] = None]
        /\ UNCHANGED <<func, status, result, refs>>

\* elif op.opname == "STORE_FAST" and tos
StoreFast(w) ==
    \E ins \in Instrs :
        /\ Yields(w, ins) /\ IsStoreFast(w, ins)
        /\ Take(w, ins)
        /\ context' = [context EXCEPT ![w].varnames = DictSet(@, ins.argval, tos[w])]
        /\ tos' = [tos EXCEPT ![w] = None]
        /\ UNCHANGED <<func, status, result, refs>>

\* elif op.opname == "LOAD_FAST" and op.argval in context.varnames
LoadFast(w) ==
    \E ins \in Instrs :
        /\ Yields(w, ins) /\ IsLoadFast(w, ins)
        /\ Take(w, ins)
        /\ set_tos(w, context[w].varnames[ins.argval])
        /\ UNCHANGED <<func, status, context, result>>

\* The else branch that leaves tos alone on a LOAD_FAST of an unbound name.
Else_skips_load_fast(w) ==
    \E ins \in Instrs :
        /\ Yields(w, ins) /\ IsElse(w, ins)
        /\ Take(w, ins)
        /\ IF tos[w] # None /\ ins.opname # "LOAD_FAST"
           THEN /\ refs' = [refs EXCEPT ![w] = Append(@, tos[w])]
                /\ tos' = [tos EXCEPT ![w] = None]
           ELSE UNCHANGED <<refs, tos>>
        /\ UNCHANGED <<func, status, context, result>>

\* The else branch without its `if tos is not None`: tos is appended
\* whatever it holds.
Else_unguarded(w) ==
    \E ins \in Instrs :
        /\ Yields(w, ins) /\ IsElse(w, ins)
        /\ Take(w, ins)
        /\ refs' = [refs EXCEPT ![w] = Append(@, tos[w])]
        /\ tos' = [tos EXCEPT ![w] = None]
        /\ UNCHANGED <<func, status, context, result>>

\* else: for all other instructions, hash the current TOS.
Else(w) ==
    \E ins \in Instrs :
        /\ Yields(w, ins) /\ IsElse(w, ins)
        /\ Take(w, ins)
        /\ IF tos[w] # None
           THEN /\ refs' = [refs EXCEPT ![w] = Append(@, tos[w])]
                /\ tos' = [tos EXCEPT ![w] = None]
           ELSE UNCHANGED <<refs, tos>>
        /\ UNCHANGED <<func, status, context, result>>

\* The return with a final flush: a value still on tos is appended to the
\* list returned.
Return_flushing_tos(w) ==
    /\ status[w] = "walking"
    /\ pc[w] = Len(CodeOf(w).instrs)
    /\ status' = [status EXCEPT ![w] = "returned"]
    /\ result' = [result EXCEPT ![w] =
                      Returned(IF tos[w] # None THEN Append(refs[w], tos[w])
                               ELSE refs[w])]
    /\ code' = [code EXCEPT ![func[w].code].complete = TRUE]
    /\ UNCHANGED <<func, context, pc, tos, lineno, refs>>

\* return refs, once the instructions are exhausted.
Return(w) ==
    /\ status[w] = "walking"
    /\ pc[w] = Len(CodeOf(w).instrs)
    /\ status' = [status EXCEPT ![w] = "returned"]
    /\ result' = [result EXCEPT ![w] = Returned(refs[w])]
    /\ code' = [code EXCEPT ![func[w].code].complete = TRUE]
    /\ UNCHANGED <<func, context, pc, tos, lineno, refs>>

Extract(w) ==
    \/ get_code_context(w)
    \/ LoadGlobal(w)
    \/ LoadDeref(w)
    \/ ImportName(w)
    \/ LoadAttr(w)
    \/ DeleteFast(w)
    \/ StoreFast(w)
    \/ LoadFast(w)
    \/ Else(w)
    \/ Return(w)

Next == \E w \in Walkers : Extract(w)

Spec == Init /\ [][Next]_vars

SpecTwice == InitTwice /\ [][Next]_vars

SpecPair == InitPair /\ [][Next]_vars

\* One extraction that is not abandoned: the interpreter goes on executing
\* the call, so a step that can be taken is taken.
SpecLive == Init /\ [][Next]_vars /\ WF_vars(Next)

(***************************************************************************)
(* One call of get_referenced_objects run from its first instruction to    *)
(* its last with nothing else running, as a function of the instructions   *)
(* and the context.                                                        *)
(***************************************************************************)
\* The locals of the call, and context.varnames, before the loop.
Locals(ctxt) ==
    [tos |-> None, lineno |-> NoLine, refs |-> <<>>,
     varnames |-> ctxt.varnames, raised |-> ""]

\* One pass of the loop body over ins; raised names the exception caught.
LoopBody(st, ctxt, ins) ==
    LET at == [st EXCEPT !.lineno = IF ins.starts_line # NoLine
                                    THEN ins.starts_line ELSE @]
        put(t) == [at EXCEPT !.refs = IF st.tos # None THEN Append(@, st.tos) ELSE @,
                             !.tos = t]
        raise(e) == [at EXCEPT !.raised = e]
        name == ins.argval
    IN  IF IsLoadGlobal(ins)
        THEN IF name \in DOMAIN ctxt.globals
             THEN put(ctxt.globals[name]) ELSE put(Str(name))
        ELSE IF IsLoadDeref(ins)
        THEN IF name \in DOMAIN ctxt.cells
             THEN put(ctxt.cells[name]) ELSE raise("KeyError")
        ELSE IF IsImportName(ins)
        THEN IF ImportOutcome(name) = "module" THEN put(Obj(name))
             ELSE IF ImportOutcome(name) = "ImportError" THEN put(Str(name))
             ELSE raise(ImportOutcome(name))
        ELSE IF IsLoadAttr(ins)
        THEN IF st.tos = None THEN [at EXCEPT !.refs = Append(@, Str(name))]
             ELSE IF st.tos.k = "str" THEN [at EXCEPT !.tos = Str(@.v \o "." \o name)]
             ELSE IF HasAttr(st.tos, name)
                  THEN [at EXCEPT !.tos = GetAttr(@, name)]
                  ELSE raise("AttributeError")
        ELSE IF ins.opname = "DELETE_FAST" /\ Truthy(st.tos)
        THEN IF name \in DOMAIN st.varnames
             THEN [at EXCEPT !.varnames = DictDel(@, name), !.tos = None]
             ELSE raise("KeyError")
        ELSE IF ins.opname = "STORE_FAST" /\ Truthy(st.tos)
        THEN [at EXCEPT !.varnames = DictSet(@, name, st.tos), !.tos = None]
        ELSE IF ins.opname = "LOAD_FAST" /\ name \in DOMAIN st.varnames
        THEN put(st.varnames[name])
        ELSE IF st.tos # None
             THEN [at EXCEPT !.refs = Append(@, st.tos), !.tos = None]
             ELSE at

\* The loop over the instructions s, left at the first exception.
RECURSIVE Loop(_, _, _)
Loop(st, ctxt, s) ==
    IF s = <<>> \/ st.raised # "" THEN st
    ELSE Loop(LoopBody(st, ctxt, Head(s)), ctxt, Tail(s))

\* get_referenced_objects(code, context): the locals it ends with.
get_referenced_objects(s, ctxt) == Loop(Locals(ctxt), ctxt, s)

\* get_references(func) of the tests, for a callable f whose code is s.
get_references(f, s) ==
    IF ~ClosureAssertHolds(f) THEN Raised("AssertionError", "", NoLine)
    ELSE LET st == get_referenced_objects(s, CodeContextOf(f))
         IN  IF st.raised # ""
             THEN Raised("CodeVersioningError", st.raised, st.lineno)
             ELSE Returned(st.refs)

(***************************************************************************)
(* Properties.  Vocabulary: a step in which extraction w takes one more    *)
(* instruction, the instruction it takes, and the one it took before.      *)
(***************************************************************************)
Stepped(w) == pc'[w] = pc[w] + 1
Taken(w) == code'[func[w].code].instrs[pc'[w]]
Prev(w) == CodeOf(w).instrs[pc[w]]

\* Opnames the walker has a rule for; every other opname is "non-listed".
ListedOps ==
    LOAD_GLOBAL_OPS \cup LOAD_DEREF_OPS \cup {"IMPORT_NAME"} \cup LOAD_ATTR_OPS
        \cup {"DELETE_FAST", "STORE_FAST", "LOAD_FAST"}
NonListed(ins) == ins.opname \notin ListedOps

\* What a global load of n refers to: globals[n], or the name n.
GlobalOrName(w, n) ==
    IF n \in DOMAIN context[w].globals THEN context[w].globals[n] ELSE Str(n)

\* C1: a load-global of n immediately followed by a non-listed instruction
\* appends exactly one reference, globals[n] when n is a global and the
\* string n otherwise, and leaves tos empty.
C1_GlobalLoadConsumed ==
    [][\A w \in Walkers :
          (pc[w] > 0 /\ Stepped(w) /\ IsLoadGlobal(Prev(w)) /\ NonListed(Taken(w)))
              => /\ refs'[w] = Append(refs[w], GlobalOrName(w, Prev(w).argval))
                 /\ tos'[w] = None]_vars

\* The names of a tuple of names.
Names(t) == {t[i] : i \in DOMAIN t}

\* What a closure load of n refers to in the callable f: the name of a cell
\* variable, the captured value of a free variable.
CellOrCaptured(f, n) ==
    IF n \in Names(f.co_freevars)
    THEN f.closure[CHOOSE i \in DOMAIN f.co_freevars : f.co_freevars[i] = n]
    ELSE Str(n)

\* C2: get_code_context maps every cell variable to its own name and every
\* free variable to its captured cell content; so a load-closure of n that
\* is followed by a consuming instruction appends the string n for a cell
\* variable and the captured value for a free variable.
C2_ClosureLoadConsumed ==
    /\ [](\A w \in Walkers :
             (status[w] \in {"walking", "returned"}
                 /\ Len(func[w].co_freevars) = Len(func[w].closure))
               => \A n \in Names(func[w].co_cellvars) \cup Names(func[w].co_freevars) :
                      /\ n \in DOMAIN context[w].cells
                      /\ context[w].cells[n] = CellOrCaptured(func[w], n))
    /\ [][\A w \in Walkers :
             (pc[w] > 0 /\ Stepped(w) /\ IsLoadDeref(Prev(w)) /\ NonListed(Taken(w))
                 /\ Prev(w).argval \in
                        Names(func[w].co_cellvars) \cup Names(func[w].co_freevars))
               => /\ refs'[w] = Append(refs[w], CellOrCaptured(func[w], Prev(w).argval))
                  /\ tos'[w] = None]_vars

\* The processing of ins by w raises, in the state before it: a closure
\* name missing from cells, an import that raises something else than
\* ImportError, an attribute the object on tos does not have, a delete of a
\* local that is not bound.
Fails(w, ins) ==
    \/ IsLoadDeref(ins) /\ ins.argval \notin DOMAIN context[w].cells
    \/ IsImportName(ins) /\ ImportOutcome(ins.argval) \notin {"module", "ImportError"}
    \/ IsLoadAttr(ins) /\ tos[w].k = "obj" /\ ~HasAttr(tos[w], ins.argval)
    \/ /\ ins.opname = "DELETE_FAST" /\ Truthy(tos[w])
       /\ ins.argval \notin DOMAIN context[w].varnames

Done(w) == status[w] \in {"returned", "raised"}

\* C3: whenever the processing of an instruction fails, the walk ends in
\* the code-versioning error and returns no list; after the failure no
\* further instruction is processed and the outcome never changes.
C3_FailingLoudly ==
    [][\A w \in Walkers :
          /\ (Stepped(w) /\ Fails(w, Taken(w)))
                => /\ status'[w] = "raised"
                   /\ result'[w].kind = "CodeVersioningError"
                   /\ result'[w].refs = <<>>
          /\ status[w] = "raised"
                => /\ status'[w] = "raised" /\ result'[w] = result[w]
                   /\ pc'[w] = pc[w] /\ refs'[w] = refs[w]]_vars

\* A walk that had found references fails at its third instruction.
C3_Witness ==
    \E w \in Walkers :
        /\ status[w] = "raised" /\ result[w].kind = "CodeVersioningError"
        /\ pc[w] = 3 /\ refs[w] # <<>>

\* C4: two walks over the same instruction sequence, each started from a
\* context with equal globals, cells and varnames, return the same
\* references in the same order (or end in the same error).
C4_Determinism ==
    \A w1, w2 \in Walkers :
        (func[w1] = func[w2] /\ Done(w1) /\ Done(w2)) => result[w1] = result[w2]

\* Both walks of one callable have returned a list of two references.
C4_Witness ==
    /\ \A w \in Walkers : status[w] = "returned" /\ Len(result[w].refs) = 2
    /\ func["w1"] = func["w2"]

\* C5: get_code_context on a callable whose free-variable names and captured
\* cells differ in number raises and returns no context.
C5_MismatchRaises ==
    \A w \in Walkers :
        (status[w] \notin {"idle", "created"}
            /\ Len(func[w].co_freevars) # Len(func[w].closure))
          => /\ status[w] = "raised" /\ result[w].kind = "AssertionError"
             /\ context[w] = NoContext

\* A LOAD_FAST of a name that is not bound in varnames.
UnboundLoad(w, ins) ==
    ins.opname = "LOAD_FAST" /\ ins.argval \notin DOMAIN context[w].varnames

\* C6 as stated: a load-local of a name that is not a key of varnames changes
\* none of tos, refs and varnames, whatever tos held.
C6_UnboundLoadNoEffect ==
    [][\A w \in Walkers :
          (Stepped(w) /\ UnboundLoad(w, Taken(w)))
              => /\ tos'[w] = tos[w] /\ refs'[w] = refs[w]
                 /\ context'[w] = context[w]]_vars

\* C6 as amended: a load-local of a name that is not a key of varnames leaves
\* varnames unchanged and falls under the default rule: with tos empty,
\* tos and refs are unchanged; with a value on tos, that value is appended
\* to refs and tos is emptied.
C6_UnboundLoadFlushes ==
    [][\A w \in Walkers :
          (Stepped(w) /\ UnboundLoad(w, Taken(w)))
              => /\ context'[w] = context[w] /\ status'[w] = "walking"
                 /\ IF tos[w] = None
                    THEN tos'[w] = None /\ refs'[w] = refs[w]
                    ELSE tos'[w] = None /\ refs'[w] = Append(refs[w], tos[w])]_vars

\* A global load followed by a load of an unbound local, which flushed it.
C6_Witness ==
    \E w \in Walkers :
        /\ status[w] = "walking" /\ pc[w] = 2
        /\ IsLoadGlobal(CodeOf(w).instrs[1])
        /\ UnboundLoad(w, CodeOf(w).instrs[2])
        /\ tos[w] = None /\ Len(refs[w]) = 1

\* C7: a store-local of n with any non-empty tos v binds varnames[n] = v,
\* empties tos and appends nothing to refs; a later load-local of n commits
\* exactly that v, the binding of n changing only by a store or a delete of n.
C7_StoreLoadRoundTrip ==
    [][\A w \in Walkers :
          /\ (Stepped(w) /\ Taken(w).opname = "STORE_FAST" /\ tos[w] # None)
                => /\ Taken(w).argval \in DOMAIN context'[w].varnames
                   /\ context'[w].varnames[Taken(w).argval] = tos[w]
                   /\ tos'[w] = None /\ refs'[w] = refs[w]
          /\ (Stepped(w) /\ Taken(w).opname = "LOAD_FAST"
                /\ Taken(w).argval \in DOMAIN context[w].varnames)
                => tos'[w] = context[w].varnames[Taken(w).argval]
          /\ \A n \in DOMAIN context[w].varnames :
                (\/ n \notin DOMAIN context'[w].varnames
                 \/ context'[w].varnames[n] # context[w].varnames[n])
                => /\ Stepped(w) /\ Taken(w).argval = n
                   /\ Taken(w).opname \in {"STORE_FAST", "DELETE_FAST"}]_vars

\* The number of attribute-chain instructions that end the first n
\* instructions of s.
RECURSIVE AttrRun(_, _)
AttrRun(s, n) ==
    IF n = 0 \/ ~IsLoadAttr(s[n]) THEN 0 ELSE 1 + AttrRun(s, n - 1)

\* The first n instructions of s end with a load-global of a name absent
\* from globals g followed by k >= 1 attribute-chain instructions.
InChain(s, n, g) ==
    /\ n >= 1 /\ AttrRun(s, n) >= 1 /\ n - AttrRun(s, n) >= 1
    /\ IsLoadGlobal(s[n - AttrRun(s, n)])
    /\ s[n - AttrRun(s, n)].argval \notin DOMAIN g

\* The names of instructions i..n of s joined by dots: "a.b1. ... .bk".
RECURSIVE Dotted(_, _, _)
Dotted(s, i, n) ==
    IF n = i THEN s[i].argval ELSE Dotted(s, i, n - 1) \o "." \o s[n].argval

ChainName(s, n) == Dotted(s, n - AttrRun(s, n), n)

\* C8: after a load-global of a name a absent from globals, k >= 1
\* consecutive attribute-chain instructions b1..bk leave tos equal to the one
\* string "a.b1. ... .bk" and append nothing to refs; the next consuming
\* instruction appends that one dotted string.
C8_DottedName ==
    [][\A w \in Walkers :
          Stepped(w) =>
            LET s == code'[func[w].code].instrs
                n == pc'[w]
                g == context[w].globals
            IN  /\ InChain(s, n, g)
                      => /\ tos'[w] = Str(ChainName(s, n))
                         /\ refs'[w] = refs[w] /\ status'[w] = "walking"
                /\ (InChain(s, n - 1, g) /\ NonListed(s[n]))
                      => /\ refs'[w] = Append(refs[w], Str(ChainName(s, n - 1)))
                         /\ tos'[w] = None]_vars

\* A load of an unknown global, one attribute, and a call that consumed the
\* dotted name.
C8_Witness ==
    \E w \in Walkers :
        /\ pc[w] = 3 /\ status[w] = "walking"
        /\ InChain(CodeOf(w).instrs, 2, context[w].globals)
        /\ NonListed(CodeOf(w).instrs[3])
        /\ refs[w] = <<Str(ChainName(CodeOf(w).instrs, 2))>>
        /\ tos[w] = None

\* refs after set_tos.
Flushed(w) == IF tos[w] # None THEN Append(refs[w], tos[w]) ELSE refs[w]

\* C9 as stated: an import commits the module when the import succeeds and
\* the module's name otherwise; a failed import never ends the walk.
C9_ImportNeverFails ==
    [][\A w \in Walkers :
          (Stepped(w) /\ IsImportName(Taken(w)))
              => /\ status'[w] = "walking"
                 /\ refs'[w] = Flushed(w)
                 /\ tos'[w] = IF ImportOutcome(Taken(w).argval) = "module"
                              THEN Obj(Taken(w).argval)
                              ELSE Str(Taken(w).argval)]_vars

\* C9 as amended: an import commits the module when the import succeeds and
\* the module's name when it raises ImportError (module not found), and the
\* walk goes on; an import that raises any other exception ends the walk in
\* the code-versioning error.
C9_ImportOutcomes ==
    [][\A w \in Walkers :
          (Stepped(w) /\ IsImportName(Taken(w)))
              => CASE ImportOutcome(Taken(w).argval) = "module" ->
                          /\ status'[w] = "walking" /\ refs'[w] = Flushed(w)
                          /\ tos'[w] = Obj(Taken(w).argval)
                   [] ImportOutcome(Taken(w).argval) = "ImportError" ->
                          /\ status'[w] = "walking" /\ refs'[w] = Flushed(w)
                          /\ tos'[w] = Str(Taken(w).argval)
                   [] OTHER ->
                          /\ status'[w] = "raised"
                          /\ result'[w].kind = "CodeVersioningError"]_vars

\* An import whose module is not found committed the name, and the walk
\* then returned it.
C9_Witness ==
    \E w \in Walkers :
        /\ status[w] = "returned" /\ pc[w] = 2
        /\ IsImportName(CodeOf(w).instrs[1])
        /\ ImportOutcome(CodeOf(w).instrs[1].argval) = "ImportError"
        /\ result[w].refs = <<Str(CodeOf(w).instrs[1].argval)>>

\* The first n instructions of s are local-variable or non-listed ones.
LocalOnly(s, n) ==
    \A i \in 1..n :
        s[i].opname \in {"STORE_FAST", "DELETE_FAST", "LOAD_FAST"} \/ NonListed(s[i])

\* C10: an instruction sequence with no load-global, load-closure, import or
\* attribute-chain instruction, walked with varnames initially empty, finds
\* no reference and returns the empty list without error.
C10_NoReferences ==
    \A w \in Walkers :
        (/\ status[w] \in {"walking", "returned", "raised"}
         /\ ClosureAssertHolds(func[w])
         /\ CodeContextOf(func[w]).varnames = EmptyDict
         /\ LocalOnly(CodeOf(w).instrs, pc[w]))
          => /\ status[w] # "raised" /\ refs[w] = <<>> /\ tos[w] = None
             /\ status[w] = "returned" => result[w] = Returned(<<>>)

\* A store, a load and a delete of a local, walked to the end.
C10_Witness ==
    \E w \in Walkers :
        /\ status[w] = "returned" /\ pc[w] = 3
        /\ CodeContextOf(func[w]).varnames = EmptyDict
        /\ CodeOf(w).instrs[1].opname = "STORE_FAST"
        /\ CodeOf(w).instrs[2].opname = "LOAD_FAST"
        /\ CodeOf(w).instrs[3].opname = "DELETE_FAST"
        /\ result[w] = Returned(<<>>)

\* The step in which the walk of w returns.
Returns(w) == status[w] = "walking" /\ status'[w] = "returned"

\* C11: the list the walk returns is exactly refs as it stood after the last
\* instruction was processed; a value still held in tos after the final
\* instruction is not appended, so a sequence that ends with a load-global
\* returns a list one shorter than the number of values it loaded.
C11_NoFinalFlush ==
    /\ [][\A w \in Walkers :
             Returns(w) => /\ result'[w] = Returned(refs[w])
                           /\ refs'[w] = refs[w] /\ tos'[w] = tos[w]]_vars
    /\ [](\A w \in Walkers :
             status[w] = "returned" => result[w] = Returned(refs[w]))

\* A walk of two loads of a global returned with the second still on tos:
\* the list holds the first only.
C11_Witness ==
    \E w \in Walkers :
        /\ status[w] = "returned" /\ pc[w] = 2
        /\ IsLoadGlobal(CodeOf(w).instrs[1]) /\ IsLoadGlobal(CodeOf(w).instrs[2])
        /\ tos[w] # None /\ Len(result[w].refs) = 1

\* The instructions the walk of w has taken.
TakenSoFar(w) == SubSeq(CodeOf(w).instrs, 1, pc[w])

\* C12: two walks, each with its own Context and walker state, whose steps
\* are interleaved in any order: at every point each walk holds the tos,
\* refs, lineno and varnames that a walk of the same callable running alone
\* holds after the same instructions, and each ends with the list, or the
\* error, of the walk running alone.
C12_Independence ==
    \A w \in Walkers :
        /\ Done(w) => result[w] = get_references(func[w], TakenSoFar(w))
        /\ status[w] = "walking"
              => LET st == get_referenced_objects(TakenSoFar(w), CodeContextOf(func[w]))
                 IN  /\ st.raised = ""
                     /\ tos[w] = st.tos /\ refs[w] = st.refs
                     /\ lineno[w] = st.lineno
                     /\ context[w].varnames = st.varnames

\* Two callables that differ in what they captured have both returned, with
\* different lists, each the list of its walk alone.
C12_Witness ==
    /\ \A w \in Walkers : status[w] = "returned" /\ pc[w] = 2
    /\ func["w1"] # func["w2"]
    /\ result["w1"] # result["w2"]
    /\ result["w1"].refs # <<>> /\ result["w2"].refs # <<>>

\* The instruction w took last left on tos a value resolved from globals,
\* from the captured cell of a free variable, from a successful import or
\* from the self a bound method starts with (not an unresolved name).
HoldsResolved(w) ==
    /\ pc[w] > 0
    /\ \/ IsLoadGlobal(Prev(w)) /\ Prev(w).argval \in DOMAIN context[w].globals
       \/ IsLoadDeref(Prev(w)) /\ Prev(w).argval \in Names(func[w].co_freevars)
       \/ IsImportName(Prev(w)) /\ ImportOutcome(Prev(w).argval) = "module"
       \/ /\ Prev(w).opname = "LOAD_FAST" /\ Prev(w).argval = "self"
          /\ func[w].ismethod /\ tos[w] = func[w].self

\* C13: when tos holds a resolved value, an attribute-chain instruction
\* replaces tos by the attribute of that value looked up by name (failing
\* when the value has no such attribute), never by a concatenated dotted
\* string, and appends nothing to refs; this for every kind of resolved
\* value, strings included.
C13_ResolvedAttribute ==
    [][\A w \in Walkers :
          (HoldsResolved(w) /\ tos[w] # None /\ Stepped(w) /\ IsLoadAttr(Taken(w)))
              => /\ refs'[w] = refs[w]
                 /\ IF HasAttr(tos[w], Taken(w).argval)
                    THEN /\ tos'[w] = GetAttr(tos[w], Taken(w).argval)
                         /\ status'[w] = "walking"
                    ELSE status'[w] = "raised"]_vars

\* C14: an attribute-chain instruction executed while tos is empty appends
\* the bare attribute name to refs and leaves tos empty; executed while tos
\* is non-empty it never changes refs; in neither case is varnames changed.
C14_BareAttribute ==
    [][\A w \in Walkers :
          (Stepped(w) /\ IsLoadAttr(Taken(w)))
              => /\ context'[w].varnames = context[w].varnames
                 /\ IF tos[w] = None
                    THEN /\ refs'[w] = Append(refs[w], Str(Taken(w).argval))
                         /\ tos'[w] = None /\ status'[w] = "walking"
                    ELSE refs'[w] = refs[w]]_vars

\* A bound method's walk took an attribute with tos empty, then self and an
\* attribute of it: the bare name is the one reference, the attribute of
\* self is on tos.
C14_Witness ==
    \E w \in Walkers :
        /\ status[w] = "walking" /\ pc[w] = 3
        /\ IsLoadAttr(CodeOf(w).instrs[1])
        /\ CodeOf(w).instrs[2].opname = "LOAD_FAST"
        /\ IsLoadAttr(CodeOf(w).instrs[3])
        /\ refs[w] = <<Str(CodeOf(w).instrs[1].argval)>>
        /\ HasAttr(func[w].self, CodeOf(w).instrs[3].argval)
        /\ tos[w] = GetAttr(func[w].self, CodeOf(w).instrs[3].argval)

\* C15: a delete-local of any name n executed while tos is non-empty
\* completes without error, leaves n absent from varnames, resets tos to
\* empty and appends nothing to refs, whether or not n was bound before;
\* executed while tos is empty it changes nothing.
C15_DeleteAlwaysCompletes ==
    [][\A w \in Walkers :
          (Stepped(w) /\ Taken(w).opname = "DELETE_FAST")
              => /\ status'[w] = "walking"
                 /\ refs'[w] = refs[w]
                 /\ IF tos[w] # None
                    THEN /\ Taken(w).argval \notin DOMAIN context'[w].varnames
                         /\ tos'[w] = None
                    ELSE /\ tos'[w] = tos[w]
                         /\ context'[w] = context[w]]_vars

\* s is a prefix of t.
IsPrefix(s, t) == Len(s) <= Len(t) /\ SubSeq(t, 1, Len(s)) = s

\* C16: refs is an append-only log: at every step the previous content of
\* refs is a prefix of the new content and at most one element is added;
\* nothing is deduplicated: a load or a non-listed instruction taken with a
\* value on tos appends that value, whether or not refs already holds it.
C16_AppendOnly ==
    [][\A w \in Walkers :
          /\ IsPrefix(refs[w], refs'[w])
          /\ Len(refs'[w]) <= Len(refs[w]) + 1
          /\ (Stepped(w) /\ tos[w] # None
                 /\ (IsLoadGlobal(Taken(w)) \/ NonListed(Taken(w))))
                => refs'[w] = Append(refs[w], tos[w])]_vars

\* One value was loaded and consumed twice: it is in refs twice.
C16_Witness ==
    \E w \in Walkers :
        /\ pc[w] = 3 /\ Len(refs[w]) = 2
        /\ refs[w][1] = refs[w][2]
        /\ IsLoadGlobal(CodeOf(w).instrs[1]) /\ IsLoadGlobal(CodeOf(w).instrs[2])

\* C17: the walk terminates on every finite instruction sequence: every
\* extraction that has started ends, returned or raised; until then the
\* instructions are processed strictly in order, each at most once, with no
\* backtracking (the position advances by one with every instruction
\* processed, and the instructions behind it never change); the walk raises
\* at the first instruction whose processing fails and at no other; and once
\* it has returned or raised nothing more is processed.
C17_Terminates ==
    /\ <>(\A w \in Walkers : status[w] = "idle" \/ Done(w))
    /\ [][\A w \in Walkers :
             /\ pc'[w] = pc[w] \/ (Stepped(w) /\ status[w] = "walking")
             /\ IsPrefix(CodeOf(w).instrs, code'[func[w].code].instrs)
             /\ (status[w] = "walking"
                    /\ (\/ tos'[w] # tos[w] \/ refs'[w] # refs[w]
                        \/ lineno'[w] # lineno[w] \/ context'[w] # context[w]))
                   => Stepped(w)
             /\ Stepped(w) => (status'[w] = "raised" <=> Fails(w, Taken(w)))
             /\ Done(w) => /\ status'[w] = status[w] /\ pc'[w] = pc[w]
                            /\ result'[w] = result[w] /\ refs'[w] = refs[w]
                            /\ tos'[w] = tos[w] /\ context'[w] = context[w]]_vars

\* A walk that processed three instructions, the last of its code, and
\* returned what it found.
C17_Witness ==
    \E w \in Walkers :
        /\ status[w] = "returned" /\ pc[w] = 3
        /\ pc[w] = Len(CodeOf(w).instrs) /\ CodeOf(w).complete
        /\ result[w].refs # <<>>

\* get_code_context has returned the Context of w.
HasContext(w) ==
    \/ status[w] \in {"walking", "returned"}
    \/ status[w] = "raised" /\ result[w].kind = "CodeVersioningError"

\* C18: the walk changes nothing of the Context except varnames: at every
\* point of every walk, walks that end in an error included, globals and
\* cells are what they were when the walk began (the callable's globals and
\* the cells get_code_context built).
C18_OnlyVarnamesChange ==
    \A w \in Walkers :
        HasContext(w)
            => /\ context[w].globals = func[w].globals
               /\ context[w].cells = CodeContextOf(func[w]).cells

\* A walk stored a global in a local and returned: the binding is still in
\* the Context, which began with no local.
C18_Witness ==
    \E w \in Walkers :
        /\ status[w] = "returned" /\ pc[w] = 2
        /\ CodeOf(w).instrs[2].opname = "STORE_FAST"
        /\ CodeContextOf(func[w]).varnames = EmptyDict
        /\ CodeOf(w).instrs[2].argval \in DOMAIN context[w].varnames
        /\ context[w].globals # EmptyDict

\* C19: the empty marker never enters refs: in every reachable state no
\* element of refs, and none of a returned list, is None, whatever values
\* globals, cells and varnames hold.
C19_NoneNeverInRefs ==
    \A w \in Walkers :
        /\ \A i \in DOMAIN refs[w] : refs[w][i] # None
        /\ \A i \in DOMAIN result[w].refs : result[w].refs[i] # None

\* A global bound to None was loaded after a name and then consumed: refs
\* holds the name only.
C19_Witness ==
    \E w \in Walkers :
        /\ status[w] = "walking" /\ pc[w] = 3
        /\ IsLoadGlobal(CodeOf(w).instrs[2])
        /\ CodeOf(w).instrs[2].argval \in DOMAIN context[w].globals
        /\ context[w].globals[CodeOf(w).instrs[2].argval] = None
        /\ NonListed(CodeOf(w).instrs[3])
        /\ Len(refs[w]) = 1

\* The cell-variable and free-variable names of the callable of w.
ClosureNames(w) == Names(func[w].co_cellvars) \cup Names(func[w].co_freevars)

\* C20: whenever get_code_context returned the Context of a callable, cells
\* has a key for every cell-variable and free-variable name of the callable,
\* so a walk of that callable that ended in a missing-binding error (KeyError)
\* at a load-closure instruction failed on a name that is none of them.
C20_CellsCoverClosureNames ==
    \A w \in Walkers :
        HasContext(w)
            => /\ ClosureNames(w) \subseteq DOMAIN context[w].cells
               /\ (status[w] = "raised" /\ result[w].cause = "KeyError"
                      /\ IsLoadDeref(CodeOf(w).instrs[pc[w]]))
                     => CodeOf(w).instrs[pc[w]].argval \notin ClosureNames(w)

\* A closure with a free variable and a cell variable: a load of each was
\* taken and the walk goes on.
C20_Witness ==
    \E w \in Walkers :
        /\ status[w] = "walking" /\ pc[w] = 2
        /\ func[w].co_freevars # <<>> /\ func[w].co_cellvars # <<>>
        /\ IsLoadDeref(CodeOf(w).instrs[1])
        /\ CodeOf(w).instrs[1].argval \in Names(func[w].co_freevars)
        /\ IsLoadDeref(CodeOf(w).instrs[2])
        /\ CodeOf(w).instrs[2].argval \in Names(func[w].co_cellvars)
        /\ tos[w] = Str(CodeOf(w).instrs[2].argval)

====
